---- MODULE Spec2Model ----
(***************************************************************************)
(* Model of the OmniLogic Local water heater platform                      *)
(* (custom_components/omnilogic_local/water_heater.py) and of the          *)
(* temperature helpers (helpers/temperature.py).                           *)
(*                                                                         *)
(* Python numbers are modelled as records [t, v]: t is the Python type     *)
(* ("int", "float" or "None") and v the value in tenths of a degree, so    *)
(* that 69.8 is [t |-> "float", v |-> 698] and 20 is [t |-> "int",         *)
(* v |-> 200].  Python truth values and strings that are stored in the     *)
(* telemetry "enabled" field are records [t, s] with t "bool" or "str".    *)
(* Python str values that are formatted into dictionary keys are           *)
(* sequences of one-character strings.                                     *)
(***************************************************************************)
EXTENDS Integers, Sequences, FiniteSets, TLC

VARIABLES
    units,          \* MSPSystem.units of the system configuration
    msp_config,     \* MSPVirtualHeater of the entity: min_temp, max_temp, solar_set_point
    telemetry,      \* TelemetryVirtualHeater of the entity: current_set_point, enabled
    bow_telemetry,  \* TelemetryBoW of the entity's body of water (water_temp), or None
    data,           \* coordinator.data restricted to the water heaters, in dict order
    cmd,            \* the command coroutine of the entity: entry point, arguments, locals, position
    calls,          \* the calls received by coordinator.omni_api, oldest first
    ret,            \* the value returned by the last property read or helper call
    attributes      \* the dict returned by the last read of extra_state_attributes

vars == <<units, msp_config, telemetry, bow_telemetry, data, cmd, calls, ret, attributes>>

-----------------------------------------------------------------------------
(* Bounds of the model *)

MaxCalls == 2
MaxHeaters == 2

-----------------------------------------------------------------------------
(* Python values *)

None == [t |-> "None", v |-> 0]
PyInt(n) == [t |-> "int", v |-> 10 * n]
PyFloat(tenths) == [t |-> "float", v |-> tenths]
PyBool(b) == [t |-> "bool", s |-> IF b THEN "True" ELSE "False"]
PyStr(s) == [t |-> "str", s |-> s]

\* bool(x) of a bool or of a str: a str is true unless it is empty
Truthy(x) == IF x.t = "bool" THEN x.s = "True" ELSE x.s # ""

\* the nearest integer to n / d (d > 0), a tie going to the even one: Python's round
RoundDiv(n, d) ==
    LET q == n \div d
        r == n % d
    IN  IF 2 * r < d THEN q
        ELSE IF 2 * r > d THEN q + 1
        ELSE IF q % 2 = 0 THEN q ELSE q + 1

\* round(x) of a number, as an int
RoundOf(x) == [t |-> "int", v |-> 10 * RoundDiv(x.v, 10)]

\* int(x) of a number: truncation toward zero
IntOf(x) ==
    [t |-> "int",
     v |-> IF x.v >= 0 THEN 10 * (x.v \div 10) ELSE -(10 * ((-x.v) \div 10))]

\* float(x) of a number: the same number, as a float
FloatOf(x) == [t |-> "float", v |-> x.v]

FAHRENHEIT == "degF"
CELSIUS == "degC"
STATE_ON == "on"
STATE_OFF == "off"

-----------------------------------------------------------------------------
(* helpers/temperature.py *)

\* the sentinel values without the 16-bit one
INVALID_TEMP_VALUES_8bit == {-1, 255}

INVALID_TEMP_VALUES == {-1, 255, 65535}

\* is_metric_system comparing the units without regard to case
is_metric_system_anycase(system_units) == system_units \in {"Metric", "metric", "METRIC"}

is_metric_system(system_units) == system_units = "Metric"

get_unit_from_system(system_units) ==
    IF is_metric_system(system_units) THEN CELSIUS ELSE FAHRENHEIT

\* "value in INVALID_TEMP_VALUES" compares numerically: 255.0 is in the set
validate_temperature(value) ==
    IF value.t = "None" \/ value.v \in {10 * s : s \in INVALID_TEMP_VALUES}
    THEN None
    ELSE FloatOf(value)

-----------------------------------------------------------------------------
(* The entity *)

\* system_id (the context given to __init__) and bow_id of the entity
Entity == [system_id |-> 7, bow_id |-> 3]

set_telemetry(tel, key, value) == [tel EXCEPT ![key] = value]

\* "x is None"
IsNone(x) == x.t = "None"

\* the telemetry stored for a system id: an object, or None when there is none
get_telemetry_by_systemid(system_id) ==
    IF system_id = Entity.bow_id THEN bow_telemetry ELSE None

\* Fahrenheit to Celsius, rounded to the nearest whole degree
FahrenheitToWholeCelsius(x) == [t |-> "int", v |-> 10 * RoundDiv(5 * (x.v - 320), 90)]

\* a stored Fahrenheit value in the unit of the system: converted when metric
ToNative(x) ==
    IF IsNone(x) THEN None
    ELSE IF is_metric_system(units) THEN FahrenheitToWholeCelsius(x) ELSE x

\* temperature_unit following the system's units
temperature_unit_of_system == get_unit_from_system(units)

temperature_unit == FAHRENHEIT

\* max_temp converted to the unit of the system
max_temp_native == ToNative(msp_config.max_temp)

\* current_temperature without the sentinel filter
current_temperature_unfiltered ==
    LET bow == get_telemetry_by_systemid(Entity.bow_id)
    IN  IF IsNone(bow) THEN None ELSE bow.water_temp

min_temp == msp_config.min_temp

max_temp == msp_config.max_temp

target_temperature == telemetry.current_set_point

current_temperature ==
    LET bow == get_telemetry_by_systemid(Entity.bow_id)
    IN  IF IsNone(bow) THEN None ELSE validate_temperature(bow.water_temp)

current_operation == IF Truthy(telemetry.enabled) THEN STATE_ON ELSE STATE_OFF

-----------------------------------------------------------------------------
(* The commands.  A command is a coroutine: it runs to its await of the    *)
(* omni_api call, and is resumed when the call returns or raises.          *)

Idle == [op |-> "none", arg |-> None, mode |-> "", temperature |-> None, state |-> "none"]

\* the values a caller passes as ATTR_TEMPERATURE
Requests == {PyInt(20), PyFloat(850), PyFloat(698), PyFloat(205), PyFloat(-15)}

\* the values a caller passes as operation_mode
Modes == {"on", "off", "eco"}

HeaterCall(value, unit) ==
    [fn |-> "async_set_heater", bow_id |-> Entity.bow_id, system_id |-> Entity.system_id,
     value |-> value, unit |-> unit, enable |-> PyBool(FALSE), result |-> "pending"]

EnableCall(enable) ==
    [fn |-> "async_set_heater_enable", bow_id |-> Entity.bow_id, system_id |-> Entity.system_id,
     value |-> None, unit |-> "", enable |-> PyBool(enable), result |-> "pending"]

CanStart == cmd.state # "awaiting" /\ Len(calls) < MaxCalls

Settle(result) == [calls EXCEPT ![Len(calls)].result = result]

\* Celsius to Fahrenheit, rounded to the nearest whole degree
CelsiusToWholeFahrenheit(x) == [t |-> "int", v |-> 10 * RoundDiv(9 * x.v + 1600, 50)]

\* async_set_temperature, updating the local setpoint before the call has returned
async_set_temperature_eager(request) ==
    /\ CanStart
    /\ LET temperature == IntOf(request)
       IN  /\ calls' = Append(calls, HeaterCall(temperature, FAHRENHEIT))
           /\ telemetry' = set_telemetry(telemetry, "current_set_point", temperature)
           /\ cmd' = [op |-> "set_temperature", arg |-> request, mode |-> "",
                      temperature |-> temperature, state |-> "awaiting"]
    /\ UNCHANGED <<units, msp_config, bow_telemetry, data, ret, attributes>>

\* async_set_temperature, converting the request to Fahrenheit when the system is metric
async_set_temperature_converting(request) ==
    /\ CanStart
    /\ LET temperature == IF is_metric_system(units)
                          THEN CelsiusToWholeFahrenheit(request)
                          ELSE IntOf(request)
       IN  /\ calls' = Append(calls, HeaterCall(temperature, FAHRENHEIT))
           /\ cmd' = [op |-> "set_temperature", arg |-> request, mode |-> "",
                      temperature |-> temperature, state |-> "awaiting"]
    /\ UNCHANGED <<units, msp_config, telemetry, bow_telemetry, data, ret, attributes>>

\* async_set_temperature up to its await
async_set_temperature(request) ==
    /\ CanStart
    /\ LET temperature == IntOf(request)
       IN  /\ calls' = Append(calls, HeaterCall(temperature, temperature_unit))
           /\ cmd' = [op |-> "set_temperature", arg |-> request, mode |-> "",
                      temperature |-> temperature, state |-> "awaiting"]
    /\ UNCHANGED <<units, msp_config, telemetry, bow_telemetry, data, ret, attributes>>

\* async_set_temperature after its await returned
set_temperature_resume ==
    /\ cmd.state = "awaiting"
    /\ cmd.op = "set_temperature"
    /\ calls' = Settle("ok")
    /\ telemetry' = set_telemetry(telemetry, "current_set_point", cmd.temperature)
    /\ cmd' = [cmd EXCEPT !.state = "returned"]
    /\ UNCHANGED <<units, msp_config, bow_telemetry, data, ret, attributes>>

\* async_set_operation_mode taking every mode other than "on" as "off"
set_operation_mode_else_off(op, operation_mode) ==
    /\ CanStart
    /\ calls' = Append(calls, EnableCall(operation_mode = "on"))
    /\ cmd' = [op |-> op, arg |-> None, mode |-> operation_mode,
               temperature |-> None, state |-> "awaiting"]
    /\ UNCHANGED <<units, msp_config, telemetry, bow_telemetry, data, ret, attributes>>

\* async_set_operation_mode up to its await, or to its end when no case matches
set_operation_mode(op, operation_mode) ==
    /\ CanStart
    /\ IF operation_mode = "on"
       THEN /\ calls' = Append(calls, EnableCall(TRUE))
            /\ cmd' = [op |-> op, arg |-> None, mode |-> operation_mode,
                       temperature |-> None, state |-> "awaiting"]
       ELSE IF operation_mode = "off"
       THEN /\ calls' = Append(calls, EnableCall(FALSE))
            /\ cmd' = [op |-> op, arg |-> None, mode |-> operation_mode,
                       temperature |-> None, state |-> "awaiting"]
       ELSE /\ calls' = calls
            /\ cmd' = [op |-> op, arg |-> None, mode |-> operation_mode,
                       temperature |-> None, state |-> "returned"]
    /\ UNCHANGED <<units, msp_config, telemetry, bow_telemetry, data, ret, attributes>>

async_set_operation_mode(operation_mode) ==
    set_operation_mode("set_operation_mode", operation_mode)

async_turn_on == set_operation_mode("turn_on", "on")

async_turn_off == set_operation_mode("turn_off", "off")

\* async_set_operation_mode after its await returned
set_operation_mode_resume ==
    /\ cmd.state = "awaiting"
    /\ cmd.op # "set_temperature"
    /\ calls' = Settle("ok")
    /\ telemetry' = set_telemetry(telemetry, "enabled",
                                  IF cmd.mode = "on" THEN PyStr("yes") ELSE PyStr("no"))
    /\ cmd' = [cmd EXCEPT !.state = "returned"]
    /\ UNCHANGED <<units, msp_config, bow_telemetry, data, ret, attributes>>

\* the awaited omni_api call raises and the command issues it again
api_raise_retry ==
    /\ cmd.state = "awaiting"
    /\ IF Len(calls) < MaxCalls
       THEN /\ calls' = Append(Settle("raised"), calls[Len(calls)])
            /\ cmd' = cmd
       ELSE /\ calls' = Settle("raised")
            /\ cmd' = [cmd EXCEPT !.state = "raised"]
    /\ UNCHANGED <<units, msp_config, telemetry, bow_telemetry, data, ret, attributes>>

\* the awaited omni_api call raises: no handler, the exception leaves the command
api_raise ==
    /\ cmd.state = "awaiting"
    /\ calls' = Settle("raised")
    /\ cmd' = [cmd EXCEPT !.state = "raised"]
    /\ UNCHANGED <<units, msp_config, telemetry, bow_telemetry, data, ret, attributes>>

-----------------------------------------------------------------------------
(* The specification of the commands *)

NoRet == [op |-> "none", arg |-> None, val |-> None, str |-> ""]

DefaultConfig == [min_temp |-> PyInt(65), max_temp |-> PyInt(104), solar_set_point |-> PyInt(90)]

TelemetryBoW(water_temp) == [t |-> "TelemetryBoW", v |-> 0, water_temp |-> water_temp]

UnitsValues == {"Metric", "Standard"}

\* the empty dict
EmptyDict == <<>>

Init ==
    /\ units \in UnitsValues
    /\ msp_config = DefaultConfig
    /\ telemetry \in [current_set_point : {None, PyInt(68)},
                      enabled : {PyBool(TRUE), PyBool(FALSE)}]
    /\ bow_telemetry = TelemetryBoW(PyInt(78))
    /\ data = <<>>
    /\ cmd = Idle
    /\ calls = <<>>
    /\ ret = NoRet
    /\ attributes = EmptyDict

Next ==
    \/ \E request \in Requests : async_set_temperature(request)
    \/ set_temperature_resume
    \/ \E operation_mode \in Modes : async_set_operation_mode(operation_mode)
    \/ async_turn_on
    \/ async_turn_off
    \/ set_operation_mode_resume
    \/ api_raise

Spec == Init /\ [][Next]_vars

-----------------------------------------------------------------------------
(* The specification of the property reads and of the helper calls: any    *)
(* configuration and polled telemetry, no command running.                 *)

Returned(op, arg, val, str) ==
    /\ ret' = [op |-> op, arg |-> arg, val |-> val, str |-> str]
    /\ UNCHANGED <<units, msp_config, telemetry, bow_telemetry, data, cmd, calls, attributes>>

read_temperature_unit == Returned("temperature_unit", None, None, temperature_unit)

read_min_temp == Returned("min_temp", None, min_temp, "")

read_max_temp == Returned("max_temp", None, max_temp, "")

read_target_temperature == Returned("target_temperature", None, target_temperature, "")

read_current_temperature == Returned("current_temperature", None, current_temperature, "")

read_current_operation == Returned("current_operation", None, None, current_operation)

call_validate_temperature(value) ==
    Returned("validate_temperature", value, validate_temperature(value), "")

call_get_unit_from_system == Returned("get_unit_from_system", None, None, get_unit_from_system(units))

call_is_metric_system ==
    Returned("is_metric_system", None, None, PyBool(is_metric_system(units)).s)

\* the raw temperatures the API reports
RawTemperatures ==
    {None} \cup {PyInt(n) : n \in {-2, -1, 0, 78, 254, 255, 256, 65534, 65535}}
           \cup {PyFloat(d) : d \in {-15, -10, 805, 2550, 2555, 655350}}

WaterTemperatures == {None, PyInt(-1), PyInt(255), PyInt(65535), PyInt(78), PyFloat(805)}

InitRead ==
    /\ units \in UnitsValues \cup {"metric"}
    /\ msp_config \in [min_temp : {PyInt(50), PyInt(65)},
                       max_temp : {PyInt(95), PyInt(104)},
                       solar_set_point : {PyInt(90)}]
    /\ telemetry \in [current_set_point : {None, PyInt(68), PyInt(85)},
                      enabled : {PyBool(TRUE), PyBool(FALSE), PyStr("yes"), PyStr("no")}]
    /\ bow_telemetry \in {None} \cup {TelemetryBoW(w) : w \in WaterTemperatures}
    /\ data = <<>>
    /\ cmd = Idle
    /\ calls = <<>>
    /\ ret = NoRet
    /\ attributes = EmptyDict

NextRead ==
    \/ read_temperature_unit
    \/ read_min_temp
    \/ read_max_temp
    \/ read_target_temperature
    \/ read_current_temperature
    \/ read_current_operation
    \/ \E value \in RawTemperatures : call_validate_temperature(value)
    \/ call_get_unit_from_system
    \/ call_is_metric_system

SpecRead == InitRead /\ [][NextRead]_vars

-----------------------------------------------------------------------------
(* extra_state_attributes.  A str is a sequence of one-character strings,  *)
(* a dict a function from keys (strs) to values.                           *)

VIRT_HEATER == "VirtualHeater"
HEATER_EQUIP == "Heater-Equipment"

\* str.lower() of one character
LowerChar(c) ==
    CASE c = "G" -> "g"
      [] c = "A" -> "a"
      [] c = "S" -> "s"
      [] OTHER -> c

\* str.lower()
Lower(str) == [i \in 1..Len(str) |-> LowerChar(str[i])]

\* HeaterState.pretty() of the telemetry state of a heater equipment
Pretty(state) == IF state = 0 THEN "Off" ELSE IF state = 1 THEN "On" ELSE "Pause"

\* a | b of two dicts: the keys of both, the values of b where both have the key
DictUnion(a, b) ==
    [k \in DOMAIN a \cup DOMAIN b |-> IF k \in DOMAIN b THEN b[k] ELSE a[k]]

\* the entity's own entry of coordinator.data
OwnEntry ==
    [system_id |-> Entity.system_id, omni_type |-> VIRT_HEATER, name |-> <<"H">>,
     enabled |-> PyStr("yes"), bow_id |-> Entity.bow_id, state |-> 0, temp |-> None]

\* get_entities_of_hass_type(coordinator.data, "water_heater"), in dict order
all_heaters == <<OwnEntry>> \o data

IsHeaterEquip(entry) == entry.omni_type = HEATER_EQUIP

\* the heater_equipment_ids async_setup_entry gives to every entity
heater_equipment_ids ==
    LET equipment == SelectSeq(all_heaters, IsHeaterEquip)
    IN  [i \in 1..Len(equipment) |-> equipment[i].system_id]

\* coordinator.data[system_id]
CoordinatorData(system_id) ==
    CHOOSE entry \in {all_heaters[i] : i \in 1..Len(all_heaters)} : entry.system_id = system_id

\* OmniLogicEntity.extra_state_attributes
base_extra_state_attributes ==
    (<<"o","m","n","i","_","s","y","s","t","e","m","_","i","d">> :> Entity.system_id)
    @@ (<<"o","m","n","i","_","b","o","w","_","i","d">> :> Entity.bow_id)

KeySolarSetPoint == <<"s","o","l","a","r","_","s","e","t","_","p","o","i","n","t">>
KeyPrefix == <<"o","m","n","i","_","h","e","a","t","e","r","_">>
SuffixEnabled == <<"_","e","n","a","b","l","e","d">>
SuffixSystemId == <<"_","s","y","s","t","e","m","_","i","d">>
SuffixBowId == <<"_","b","o","w","_","i","d">>
SuffixState == <<"_","s","t","a","t","e">>
SuffixSensorTemp == <<"_","s","e","n","s","o","r","_","t","e","m","p">>

\* the attributes of one heater equipment, under its prefix
EquipmentAttributes(system_id) ==
    LET heater_equipment == CoordinatorData(system_id)
        prefix == KeyPrefix \o Lower(heater_equipment.name)
    IN  (prefix \o SuffixEnabled :> heater_equipment.enabled)
        @@ (prefix \o SuffixSystemId :> system_id)
        @@ (prefix \o SuffixBowId :> heater_equipment.bow_id)
        @@ (prefix \o SuffixState :> Pretty(heater_equipment.state))
        @@ (prefix \o SuffixSensorTemp :> heater_equipment.temp)

\* the loop over self.heater_equipment_ids, from its i-th id on
RECURSIVE AttributesLoop(_, _, _)
AttributesLoop(extra, ids, i) ==
    IF i > Len(ids) THEN extra
    ELSE AttributesLoop(DictUnion(extra, EquipmentAttributes(ids[i])), ids, i + 1)

extra_state_attributes ==
    AttributesLoop(DictUnion(base_extra_state_attributes,
                             KeySolarSetPoint :> msp_config.solar_set_point),
                   heater_equipment_ids, 1)

read_extra_state_attributes ==
    /\ attributes' = extra_state_attributes
    /\ ret' = [op |-> "extra_state_attributes", arg |-> None, val |-> None, str |-> ""]
    /\ UNCHANGED <<units, msp_config, telemetry, bow_telemetry, data, cmd, calls>>

\* the names a heater can be given
HeaterNames == {<<"G","a","s">>, <<"G","A","S">>, <<"S","u","n">>}

\* the entries coordinator.data can hold at a system id
HeaterEntries(system_id) ==
    {[system_id |-> system_id, omni_type |-> VIRT_HEATER, name |-> <<"H">>,
      enabled |-> PyStr("yes"), bow_id |-> Entity.bow_id, state |-> 0, temp |-> None]}
    \cup {[system_id |-> system_id, omni_type |-> HEATER_EQUIP, name |-> name,
           enabled |-> enabled, bow_id |-> Entity.bow_id, state |-> state, temp |-> temp] :
           name \in HeaterNames, enabled \in {PyStr("yes"), PyStr("no")},
           state \in {0, 1}, temp \in {PyInt(80), PyInt(255)}}

InitAttrs ==
    /\ units \in UnitsValues
    /\ msp_config = DefaultConfig
    /\ telemetry = [current_set_point |-> PyInt(68), enabled |-> PyBool(TRUE)]
    /\ bow_telemetry = TelemetryBoW(PyInt(78))
    /\ \E n \in 0..MaxHeaters :
          \E entries \in [1..n -> UNION {HeaterEntries(10 + i) : i \in 1..n}] :
             /\ \A i \in 1..n : entries[i].system_id = 10 + i
             /\ data = entries
    /\ cmd = Idle
    /\ calls = <<>>
    /\ ret = NoRet
    /\ attributes = EmptyDict

NextAttrs == read_extra_state_attributes

SpecAttrs == InitAttrs /\ [][NextAttrs]_vars

-----------------------------------------------------------------------------
(* Shorthands for the claims *)

LastCall == calls[Len(calls)]

IsSetTemperature == cmd.op = "set_temperature"

IsSetOperationMode == cmd.op \in {"set_operation_mode", "turn_on", "turn_off"}

Whole(x) == x.v % 10 = 0

\* y is x truncated toward zero to a whole degree
TruncatedToward0(x, y) ==
    /\ Whole(y)
    /\ IF x.v >= 0 THEN y.v <= x.v /\ x.v - y.v < 10
                   ELSE y.v >= x.v /\ y.v - x.v < 10

\* the indices of the async_set_heater calls that returned
OkHeaterCalls == {i \in 1..Len(calls) : calls[i].fn = "async_set_heater" /\ calls[i].result = "ok"}

Max(S) == CHOOSE m \in S : \A n \in S : n <= m

-----------------------------------------------------------------------------
\* C1 as stated: every set_temperature sends, in Fahrenheit, the request converted
\* from Celsius and rounded to the nearest whole degree when the system is metric,
\* and the request rounded to the nearest whole degree otherwise.
C1_AsStated ==
    IsSetTemperature =>
        /\ LastCall.fn = "async_set_heater"
        /\ LastCall.unit = FAHRENHEIT
        /\ Whole(LastCall.value)
        /\ LastCall.value.v =
              IF is_metric_system(units)
              THEN CelsiusToWholeFahrenheit(cmd.arg).v
              ELSE RoundOf(cmd.arg).v

\* C1 amended: every set_temperature sends one async_set_heater call for the
\* entity's body of water and system id, in Fahrenheit, whose value is the request
\* truncated toward zero to a whole degree (an int), whatever the system's units.
C1_SendsTruncatedFahrenheit ==
    IsSetTemperature =>
        /\ LastCall.fn = "async_set_heater"
        /\ LastCall.bow_id = Entity.bow_id
        /\ LastCall.system_id = Entity.system_id
        /\ LastCall.unit = "degF"
        /\ LastCall.value.t = "int"
        /\ TruncatedToward0(cmd.arg, LastCall.value)

C1_Witness ==
    /\ IsSetTemperature
    /\ units = "Metric"
    /\ cmd.arg = PyFloat(698)
    /\ LastCall.value = PyInt(69)

-----------------------------------------------------------------------------
\* C3: the local setpoint is the value of the most recent async_set_heater call that
\* returned, when there is one, and it changes only in the step in which an
\* async_set_heater call returns (never when the call is issued or raises), so that
\* it keeps its polled value while no call has returned.
C3_SetpointFollowsLastSuccess ==
    /\ [](OkHeaterCalls # {} =>
            telemetry.current_set_point = calls[Max(OkHeaterCalls)].value)
    /\ [][telemetry'.current_set_point # telemetry.current_set_point =>
            /\ cmd.state = "awaiting"
            /\ LastCall.fn = "async_set_heater"
            /\ LastCall.result = "pending"
            /\ Len(calls') = Len(calls)
            /\ calls'[Len(calls)].result = "ok"]_vars

C3_Witness ==
    /\ Len(calls) = 2
    /\ calls[1].fn = "async_set_heater" /\ calls[1].result = "ok"
    /\ calls[2].fn = "async_set_heater" /\ calls[2].result = "raised"
    /\ calls[1].value # calls[2].value
    /\ telemetry.current_set_point = calls[1].value

-----------------------------------------------------------------------------
\* C4: the step in which the hardware call of a command raises ends the command
\* with the exception, leaves the local telemetry as it is and issues no call; the
\* step that starts a command leaves the telemetry as it is too, and a call is
\* issued only by the step that starts a command, one call per command.
C4_FailurePropagatesNoRetry ==
    [][/\ (cmd.state = "awaiting" /\ calls'[Len(calls)].result = "raised") =>
            /\ cmd'.state = "raised"
            /\ telemetry' = telemetry
            /\ Len(calls') = Len(calls)
       /\ Len(calls') # Len(calls) =>
            /\ cmd.state # "awaiting"
            /\ cmd'.state = "awaiting"
            /\ Len(calls') = Len(calls) + 1
            /\ telemetry' = telemetry]_vars

C4_Witness ==
    /\ Len(calls) = 2
    /\ calls[1].fn = "async_set_heater" /\ calls[1].result = "raised"
    /\ calls[2].fn = "async_set_heater_enable" /\ calls[2].result = "raised"
    /\ cmd.state = "raised"

-----------------------------------------------------------------------------
\* C5 as stated: under metric display a successful set_temperature(20) sends 68,
\* stores 68 as the local setpoint, and target_temperature then reports 20.
C5_AsStated ==
    (/\ is_metric_system(units)
     /\ IsSetTemperature
     /\ cmd.state = "returned"
     /\ cmd.arg = PyInt(20)) =>
        /\ LastCall.value.v = 680
        /\ telemetry.current_set_point.v = 680
        /\ target_temperature.v = 200

\* C5 amended: whatever the units, a successful set_temperature(c) of a whole-degree
\* c sends c itself in Fahrenheit, stores c as the local setpoint, and
\* target_temperature then reports c (set_temperature(20) sends and stores 20).
C5_WholeDegreeRoundTrip ==
    (/\ IsSetTemperature
     /\ cmd.state = "returned"
     /\ Whole(cmd.arg)) =>
        /\ LastCall.unit = FAHRENHEIT
        /\ LastCall.value.v = cmd.arg.v
        /\ telemetry.current_set_point.v = cmd.arg.v
        /\ target_temperature.v = cmd.arg.v

C5_Witness ==
    /\ is_metric_system(units)
    /\ IsSetTemperature
    /\ cmd.state = "returned"
    /\ cmd.arg = PyInt(20)
    /\ LastCall.value = PyInt(20)
    /\ target_temperature = PyInt(20)

-----------------------------------------------------------------------------
\* C6 as stated: set_operation_mode(on) issues an enable call and
\* set_operation_mode(off) a disable call for the entity's body of water and system
\* id; the local enabled flag changes only in the step in which that call returns;
\* and once the command has returned current_operation reports the mode commanded.
C6_AsStated ==
    /\ []((IsSetOperationMode /\ cmd.mode \in {"on", "off"}) =>
            /\ LastCall.fn = "async_set_heater_enable"
            /\ LastCall.bow_id = Entity.bow_id
            /\ LastCall.system_id = Entity.system_id
            /\ LastCall.enable = PyBool(cmd.mode = "on")
            /\ cmd.state = "returned" => current_operation = cmd.mode)
    /\ [][telemetry'.enabled # telemetry.enabled =>
            /\ cmd.state = "awaiting"
            /\ LastCall.fn = "async_set_heater_enable"
            /\ calls'[Len(calls)].result = "ok"]_vars

-----------------------------------------------------------------------------
(* Claims about the property reads and the helpers, under SpecRead *)

Sentinels == {-10, 2550, 655350}

NothingKnown(x) == x.t = "None"

-----------------------------------------------------------------------------
\* C2 as stated: temperature_unit is Celsius when units is "Metric" and Fahrenheit
\* for every other units value.
C2_AsStated ==
    ret.op = "temperature_unit" =>
        ret.str = IF units = "Metric" THEN "degC" ELSE "degF"

\* C2 amended: temperature_unit is Fahrenheit for every units value, "Metric"
\* included.
C2_AlwaysFahrenheit == ret.op = "temperature_unit" => ret.str = "degF"

C2_Witness == ret.op = "temperature_unit" /\ units = "Metric" /\ ret.str = "degF"

-----------------------------------------------------------------------------
\* C7: validate_temperature returns None for None and for -1, 255 and 65535 (int or
\* float), returns every other number as a float of the same value, and a call of
\* it changes nothing else.
C7_SentinelFilter ==
    /\ [](ret.op = "validate_temperature" =>
            IF ret.arg.t = "None" \/ ret.arg.v \in Sentinels
            THEN NothingKnown(ret.val)
            ELSE ret.val.t = "float" /\ ret.val.v = ret.arg.v)
    /\ [][ret'.op = "validate_temperature" =>
            UNCHANGED <<units, msp_config, telemetry, bow_telemetry, data, cmd, calls,
                        attributes>>]_vars

C7_Witness ==
    /\ ret.op = "validate_temperature"
    /\ ret.arg = PyInt(65535)
    /\ NothingKnown(ret.val)

-----------------------------------------------------------------------------
\* C8 as stated: current_temperature is nothing-known without body-of-water
\* telemetry or with a sentinel water temperature, and otherwise the water
\* temperature converted to Celsius and rounded when the system is metric.
C8_AsStated ==
    ret.op = "current_temperature" =>
        IF \/ IsNone(bow_telemetry)
           \/ IsNone(bow_telemetry.water_temp)
           \/ bow_telemetry.water_temp.v \in Sentinels
        THEN NothingKnown(ret.val)
        ELSE ret.val.v = ToNative(bow_telemetry.water_temp).v

\* C8 amended: current_temperature is nothing-known without body-of-water
\* telemetry or with a None or sentinel water temperature, and otherwise the water
\* temperature as a float, unchanged whatever the system's units.
C8_FilteredUnconverted ==
    ret.op = "current_temperature" =>
        IF \/ IsNone(bow_telemetry)
           \/ IsNone(bow_telemetry.water_temp)
           \/ bow_telemetry.water_temp.v \in Sentinels
        THEN NothingKnown(ret.val)
        ELSE ret.val.t = "float" /\ ret.val.v = bow_telemetry.water_temp.v

C8_Witness ==
    /\ ret.op = "current_temperature"
    /\ units = "Metric"
    /\ ~IsNone(bow_telemetry)
    /\ bow_telemetry.water_temp = PyInt(78)
    /\ ret.val = PyFloat(780)

-----------------------------------------------------------------------------
\* C9 as stated: min_temp, max_temp and target_temperature return the stored
\* Fahrenheit value converted to Celsius and rounded when the system is metric and
\* unchanged otherwise; target_temperature is nothing-known for an unknown setpoint.
C9_AsStated ==
    /\ ret.op = "min_temp" => ret.val.v = ToNative(msp_config.min_temp).v
    /\ ret.op = "max_temp" => ret.val.v = ToNative(msp_config.max_temp).v
    /\ ret.op = "target_temperature" =>
          IF IsNone(telemetry.current_set_point)
          THEN NothingKnown(ret.val)
          ELSE ret.val.v = ToNative(telemetry.current_set_point).v

\* C9 amended: min_temp, max_temp and target_temperature return the stored
\* Fahrenheit value unchanged whatever the system's units; target_temperature is
\* nothing-known for an unknown setpoint.
C9_StoredUnconverted ==
    /\ ret.op = "min_temp" => ret.val = msp_config.min_temp
    /\ ret.op = "max_temp" => ret.val = msp_config.max_temp
    /\ ret.op = "target_temperature" =>
          IF IsNone(telemetry.current_set_point)
          THEN NothingKnown(ret.val)
          ELSE ret.val = telemetry.current_set_point

C9_Witness ==
    /\ ret.op = "max_temp"
    /\ units = "Metric"
    /\ ret.val = PyInt(104)

-----------------------------------------------------------------------------
(* Claim about extra_state_attributes, under SpecAttrs *)

\* the keys of the attribute groups: one "<prefix>_system_id" per group
GroupKeys(dict) ==
    {k \in DOMAIN dict :
        /\ Len(k) > Len(KeyPrefix) + Len(SuffixSystemId)
        /\ SubSeq(k, 1, Len(KeyPrefix)) = KeyPrefix
        /\ SubSeq(k, Len(k) - Len(SuffixSystemId) + 1, Len(k)) = SuffixSystemId}

\* C10 as stated: extra_state_attributes holds the base attributes, the solar
\* setpoint and, for every heater-equipment id, a group keyed by that equipment's
\* lowercased name that carries that equipment's own enabled flag, system id,
\* body-of-water id, pretty state and sensed temperature; there are as many groups
\* as equipment ids.
C10_AsStated ==
    ret.op = "extra_state_attributes" =>
        /\ \A k \in DOMAIN base_extra_state_attributes :
              k \in DOMAIN attributes /\ attributes[k] = base_extra_state_attributes[k]
        /\ KeySolarSetPoint \in DOMAIN attributes
        /\ attributes[KeySolarSetPoint] = msp_config.solar_set_point
        /\ \A i \in 1..Len(heater_equipment_ids) :
              LET equipment == CoordinatorData(heater_equipment_ids[i])
                  prefix == KeyPrefix \o Lower(equipment.name)
              IN  /\ attributes[prefix \o SuffixEnabled] = equipment.enabled
                  /\ attributes[prefix \o SuffixSystemId] = heater_equipment_ids[i]
                  /\ attributes[prefix \o SuffixBowId] = equipment.bow_id
                  /\ attributes[prefix \o SuffixState] = Pretty(equipment.state)
                  /\ attributes[prefix \o SuffixSensorTemp] = equipment.temp
        /\ Cardinality(GroupKeys(attributes)) = Len(heater_equipment_ids)

-----------------------------------------------------------------------------
\* C11: get_unit_from_system returns Celsius exactly when units is "Metric" and
\* Fahrenheit for every other value (a "metric" in lower case included), and
\* is_metric_system returns True exactly when units is "Metric", which are the
\* configurations for which get_unit_from_system returns Celsius.
C11_MetricIffCelsius ==
    /\ ret.op = "get_unit_from_system" =>
          /\ ret.str \in {"degC", "degF"}
          /\ ret.str = "degC" <=> units = "Metric"
    /\ ret.op = "is_metric_system" =>
          /\ ret.str \in {"True", "False"}
          /\ ret.str = "True" <=> units = "Metric"
          /\ ret.str = "True" <=> get_unit_from_system(units) = "degC"

C11_Witness ==
    /\ ret.op = "get_unit_from_system"
    /\ units = "metric"
    /\ ret.str = "degF"

-----------------------------------------------------------------------------
\* C12: every step of a set_temperature command leaves the local enabled flag as
\* it is, every step of a set_operation_mode command (turn_on and turn_off
\* included) leaves the local setpoint as it is, and a set_operation_mode with a
\* mode other than "on" and "off" issues no call and leaves the telemetry as it is.
C12_CommandFrames ==
    [][/\ cmd'.op = "set_temperature" => telemetry'.enabled = telemetry.enabled
       /\ cmd'.op \in {"set_operation_mode", "turn_on", "turn_off"} =>
            /\ telemetry'.current_set_point = telemetry.current_set_point
            /\ cmd'.mode \notin {"on", "off"} =>
                 /\ calls' = calls
                 /\ telemetry' = telemetry
                 /\ cmd'.state = "returned"]_vars

C12_Witness ==
    /\ cmd.op = "set_operation_mode"
    /\ cmd.mode = "eco"
    /\ cmd.state = "returned"
    /\ Len(calls) = 1
    /\ calls[1].fn = "async_set_heater"
    /\ calls[1].result = "ok"
    /\ telemetry.current_set_point = calls[1].value

====
